---- MODULE Spec2Model ----
(***************************************************************************)
(* A model of fibery_mcp_server/tools/query.py and tools/search.py.        *)
(*                                                                         *)
(* Python values are encoded as follows.                                   *)
(*   - An optional value (anything that may be None) is a sequence of      *)
(*     length at most one: None is <<>>, a value x is <<x>>.               *)
(*   - A dict is a sequence of [k, v] entries with pairwise different      *)
(*     keys, in insertion order (Python dicts keep insertion order).       *)
(*   - The tool-call arguments are such a dict whose values are optional   *)
(*     values; a key that was not passed is not in the dict.               *)
(*   - In search.py, whose code inspects the characters of its strings,    *)
(*     a string is a sequence of one-character strings.                    *)
(*   - A value whose Python type matters is a record [t, s]: t is the      *)
(*     type tag and s the payload.                                         *)
(***************************************************************************)
EXTENDS Integers, Sequences, FiniteSets, TLC

VARIABLES pc, arguments, request, worklist, result, pos, calls, output

vars == <<pc, arguments, request, worklist, result, pos, calls, output>>

(***************************************************************************)
(* Bounds of the model.                                                    *)
(***************************************************************************)
\* longest order mapping, longest select clause
MaxOrder == 2
MaxSelect == 2
\* most entities the executor returns in one page
MaxEntities == 2
MaxPage == 2

(***************************************************************************)
(* Python built-ins.                                                       *)
(***************************************************************************)
None == <<>>

Some(x) == <<x>>

Range(s) == {s[i] : i \in DOMAIN s}

\* k in d
HasKey(d, k) == \E i \in DOMAIN d : d[i].k = k

\* d[k], for a key that is in d
Lookup(d, k) == d[CHOOSE i \in DOMAIN d : d[i].k = k].v

\* d.get(k, default)
Get(d, k, default) == IF HasKey(d, k) THEN Lookup(d, k) ELSE default

\* d[k] = v : an existing key keeps its place, a new key goes last
DictSet(d, k, v) ==
  IF HasKey(d, k)
    THEN [i \in DOMAIN d |-> IF d[i].k = k THEN [k |-> k, v |-> v] ELSE d[i]]
    ELSE Append(d, [k |-> k, v |-> v])

Keys(d) == {d[i].k : i \in DOMAIN d}

\* the dicts over the given keys and values with at most n entries
Dicts(ks, vs, n) ==
  {d \in UNION {[1..m -> [k : ks, v : vs]] : m \in 0..n} :
     \A i, j \in DOMAIN d : i # j => d[i].k # d[j].k}

(***************************************************************************)
(* query.py: parse_q_order_by                                              *)
(***************************************************************************)
\* [([field], q_order) for field, q_order in q_order_by.items()]
OrderPairsReversed(d) ==
  [i \in DOMAIN d |-> <<<<d[Len(d) + 1 - i].k>>, d[Len(d) + 1 - i].v>>]

OrderPairs(d) == [i \in DOMAIN d |-> <<<<d[i].k>>, d[i].v>>]

\* q_order_by is an optional dict; the result is an optional list
parse_q_order_by(q_order_by) ==
  IF q_order_by = None \/ q_order_by[1] = <<>>
    THEN None
    ELSE Some(OrderPairs(q_order_by[1]))

(***************************************************************************)
(* query.py: get_rich_text_fields                                          *)
(*                                                                         *)
(* A field spec of a select clause is [t, s]: t = "str" with s = <<name>>, *)
(* t = "list" with s the path (which may be empty), t = "dict" (a          *)
(* sub-query) or t = "other" (a number, a boolean, null), both with        *)
(* s = <<>>.                                                               *)
(***************************************************************************)
SecretField == "Collaboration~Documents/secret"

Str(name) == [t |-> "str", s |-> <<name>>]

Path(p) == [t |-> "list", s |-> p]

SubQuery == [t |-> "dict", s |-> <<>>]

Other == [t |-> "other", s |-> <<>>]

\* database.fields_by_name().get(field_name, None) and field.is_rich_text():
\* a database is [fields, rich], the names of its fields and of those that
\* are rich text
IsKnownField(database, field_name) == field_name \in database.fields

IsRichText(database, field_name) == field_name \in database.rich

\* One turn of the loop over safe_q_select.items(), at entry i; acc is
\* [raised, rich, select].
RichTextStep(acc, i, database) ==
  LET spec == acc.select[i].v
      alias == acc.select[i].k
  IN  IF acc.raised THEN acc
      \* isinstance(field_name, dict): continue
      ELSE IF spec.t = "dict" THEN acc
      \* neither str nor list: continue
      ELSE IF spec.t = "other" THEN acc
      \* field_name[0] of an empty list raises IndexError
      ELSE IF spec.t = "list" /\ spec.s = <<>>
        THEN [acc EXCEPT !.raised = TRUE]
      ELSE LET field_name == spec.s[1]
           IN  IF ~IsKnownField(database, field_name) THEN acc
               ELSE IF IsRichText(database, field_name)
                 THEN [acc EXCEPT
                         !.rich = Append(@, [alias |-> alias,
                                             name |-> field_name]),
                         !.select = DictSet(@, alias,
                                      Path(<<field_name, SecretField>>))]
                 ELSE acc

RECURSIVE RichTextLoop(_, _, _)
RichTextLoop(acc, i, database) ==
  IF i > Len(acc.select) THEN acc
  ELSE RichTextLoop(RichTextStep(acc, i, database), i + 1, database)

\* [raised, rich, select]: raised when the call ends in an exception, else
\* rich is rich_text_fields and select is safe_q_select
get_rich_text_fields(q_select, database) ==
  RichTextLoop([raised |-> FALSE, rich |-> <<>>, select |-> q_select],
               1, database)

(***************************************************************************)
(* query.py: handle_query                                                  *)
(*                                                                         *)
(* pc is the place the coroutine is suspended at: "idle" before the call,  *)
(* "get_schema", "query" and "fetch" while it awaits that remote call,     *)
(* "done" once it has returned (output is the returned list), "KeyError"   *)
(* or "IndexError" once it has ended in that exception.  calls is the      *)
(* history of the remote calls and of their returns.                       *)
(***************************************************************************)
DefaultQueryLimit == 50

Event(op, ph, i, alias) == [op |-> op, ph |-> ph, i |-> i, alias |-> alias]

\* Schema.databases_by_name(): the databases of the workspace
SchemaDatabases ==
  [k \in {"S/T"} |->
     [fields |-> {"S/name", "S/desc", "S/body"}, rich |-> {"S/desc", "S/body"}]]

\* a where clause is [comb, conds]: conds are the [op, path, value]
\* conditions, comb is "" for a single condition and else the "q/and" or
\* "q/or" that joins them.  A value is a "$name" placeholder or a literal.
Cond(value) == [op |-> "=", path |-> <<"S/name">>, value |-> value]

PlaceholderNames == {"$p", "$q"}

Wheres ==
  { [comb |-> "", conds |-> <<Cond("Active")>>],
    [comb |-> "q/and", conds |-> <<Cond("$p"), Cond("$q")>>] }

\* the q_params dicts: name -> literal
ParamDicts ==
  { <<[k |-> "$p", v |-> "x"]>>,
    <<[k |-> "$p", v |-> "x"], [k |-> "$q", v |-> "y"]>> }

\* the select clauses: no rich text, one rich-text alias, two of them (one by
\* a path), a rich-text alias after a sub-query, an empty path
QuerySelects ==
  { <<[k |-> "A", v |-> Str("S/name")]>>,
    <<[k |-> "A", v |-> Str("S/desc")]>>,
    <<[k |-> "A", v |-> Str("S/desc")], [k |-> "B", v |-> Path(<<"S/body", "x">>)]>>,
    <<[k |-> "A", v |-> SubQuery], [k |-> "B", v |-> Str("S/body")]>>,
    <<[k |-> "A", v |-> Path(<<>>)]>> }

\* an argument that may be left out: no entry, or an entry with one of vs
MaybeArg(k, vs) == {<<>>} \cup {<<[k |-> k, v |-> v]>> : v \in vs}

QueryArguments ==
  { <<[k |-> "q_from", v |-> Some(f)], [k |-> "q_select", v |-> Some(s)]>>
      \o w \o o \o l \o off \o p :
    f \in {"S/T", "S/U"},
    s \in QuerySelects,
    w \in MaybeArg("q_where", {Some(x) : x \in Wheres}),
    o \in MaybeArg("q_order_by",
           {Some(<<>>),
            Some(<<[k |-> "b", v |-> "q/desc"], [k |-> "a", v |-> "q/asc"]>>)}),
    l \in MaybeArg("q_limit", {Some(10)}),
    off \in MaybeArg("q_offset", {None, Some(0)}),
    p \in MaybeArg("q_params", {Some(x) : x \in ParamDicts}) }

\* {k: v for k, v in {...}.items() if v is not None}
KeepAll(d) == d

DropNone(d) == SelectSeq(d, LAMBDA e : e.v # None)

\* base | optional, lines 139-153
BuildQuery(args, safe_q_select) ==
  << [k |-> "q/from", v |-> Lookup(args, "q_from")],
     [k |-> "q/select", v |-> Some(safe_q_select)],
     [k |-> "q/limit", v |-> Get(args, "q_limit", Some(DefaultQueryLimit))] >>
  \o DropNone(<< [k |-> "q/where", v |-> Get(args, "q_where", None)],
                 [k |-> "q/order-by",
                  v |-> parse_q_order_by(Get(args, "q_order_by", None))],
                 [k |-> "q/offset", v |-> Get(args, "q_offset", None)] >>)

\* line 133 and the call of line 135
QueryCall ==
  /\ pc = "idle"
  /\ \E args \in QueryArguments : arguments' = args
  /\ calls' = Append(calls, Event("get_schema", "call", 0, ""))
  /\ pc' = "get_schema"
  /\ UNCHANGED <<request, worklist, result, pos, output>>

\* get_schema returns; lines 136-155 up to the call of the executor
QuerySchemaReturn ==
  /\ pc = "get_schema"
  /\ LET q_from == Lookup(arguments, "q_from")[1]
         q_select == Lookup(arguments, "q_select")[1]
         returned == Append(calls, Event("get_schema", "return", 0, ""))
     IN  IF q_from \notin DOMAIN SchemaDatabases
           THEN /\ pc' = "KeyError"
                /\ calls' = returned
                /\ UNCHANGED <<request, worklist>>
           ELSE LET r == get_rich_text_fields(q_select, SchemaDatabases[q_from])
                IN  IF r.raised
                      THEN /\ pc' = "IndexError"
                           /\ calls' = returned
                           /\ UNCHANGED <<request, worklist>>
                      ELSE /\ pc' = "query"
                           /\ request' = Some([query |-> BuildQuery(arguments, r.select),
                                               params |-> Get(arguments, "q_params", None)])
                           /\ worklist' = r.rich
                           /\ calls' = Append(returned, Event("query", "call", 0, ""))
  /\ UNCHANGED <<arguments, result, pos, output>>

\* str(commandResult): the success flag and the entities
ResultText(success, entities) ==
  [type |-> "text", kind |-> "result", success |-> success,
   result |-> entities, entity |-> None, field |-> None]

\* f"Unable to get document content for entity {entity}. Field: {field}"
PartialResultText(entity, field) ==
  [type |-> "text", kind |-> "result", success |-> TRUE,
   result |-> <<entity>>, entity |-> None, field |-> None]

DiagnosticText(entity, field) ==
  [type |-> "text", kind |-> "diagnostic", success |-> FALSE,
   result |-> <<>>, entity |-> Some(entity), field |-> Some(field)]

\* not secret
IsMissing(secret) == secret = None \/ secret[1] = ""

\* the inner loop of line 161 after field j of entity i: the next field
AfterFieldNextEntity(i, j) == <<i + 1, 1>>

AfterField(i, j) == <<i, j + 1>>

\* the outer loop of line 160: past the last field, the next entity
EntityMajor(i, j, nfields) ==
  IF j > nfields THEN <<i + 1, 1>> ELSE <<i, j>>

\* Lines 160-170 from entity i, field j, until the coroutine suspends in
\* get_document_content or returns.
Resolve(entities, i, j, log) ==
  LET at == EntityMajor(i, j, Len(worklist))
  IN  /\ result' = entities
      /\ calls' = IF at[1] > Len(entities) \/ worklist = <<>>
                     \/ IsMissing(Get(entities[at[1]], worklist[at[2]].alias, None))
                    THEN log
                    ELSE Append(log, Event("fetch", "call", at[1], worklist[at[2]].alias))
      /\ IF at[1] > Len(entities) \/ worklist = <<>>
           THEN /\ pc' = "done"
                /\ pos' = <<0, 0>>
                /\ output' = <<ResultText(TRUE, entities)>>
           ELSE IF IsMissing(Get(entities[at[1]], worklist[at[2]].alias, None))
             THEN /\ pc' = "done"
                  /\ pos' = at
                  /\ output' = <<DiagnosticText(entities[at[1]], worklist[at[2]])>>
             ELSE /\ pc' = "fetch"
                  /\ pos' = at
                  /\ output' = output

\* the entities the executor may return: each alias absent, empty or a handle
QueryEntities ==
  {a \o b : a \in MaybeArg("A", {Some(""), Some("H1")}),
            b \in MaybeArg("B", {Some(""), Some("H2")})}

QueryPages == UNION {[1..n -> QueryEntities] : n \in 0..MaxEntities}

\* The executor reports a failure: lines 157-158.  Nothing reads the
\* arguments or the document after line 155: the two actions that take the
\* executor's answer drop them.
QueryExecutorFail ==
  /\ pc = "query"
  /\ pc' = "done"
  /\ output' = <<ResultText(FALSE, <<>>)>>
  /\ calls' = Append(calls, Event("query", "fail", 0, ""))
  /\ request' = None
  /\ arguments' = <<>>
  /\ UNCHANGED <<worklist, result, pos>>

\* the executor returns a page: line 157, then the loops
QueryExecutorSuccess ==
  /\ pc = "query"
  /\ \E page \in QueryPages :
       Resolve(page, 1, 1, Append(calls, Event("query", "return", 0, "")))
  /\ request' = None
  /\ arguments' = <<>>
  /\ UNCHANGED worklist

\* the texts get_document_content may return
DocumentContents == {"Hello"}

\* get_document_content returns: the assignment of line 169, then the loops
QueryContentReturn ==
  /\ pc = "fetch"
  /\ \E content \in DocumentContents :
       Resolve([result EXCEPT ![pos[1]] =
                  DictSet(@, worklist[pos[2]].alias, Some(content))],
               AfterField(pos[1], pos[2])[1], AfterField(pos[1], pos[2])[2],
               Append(calls, Event("fetch", "return", pos[1], worklist[pos[2]].alias)))
  /\ UNCHANGED <<arguments, request, worklist>>

InitIdle ==
  /\ pc = "idle"
  /\ arguments = <<>>
  /\ request = None
  /\ worklist = <<>>
  /\ result = <<>>
  /\ pos = <<0, 0>>
  /\ calls = <<>>
  /\ output = <<>>

NextQuery ==
  \/ QueryCall
  \/ QuerySchemaReturn
  \/ QueryExecutorFail
  \/ QueryExecutorSuccess
  \/ QueryContentReturn

SpecQuery == InitIdle /\ [][NextQuery]_vars

(***************************************************************************)
(* Claims about handle_query                                               *)
(***************************************************************************)
\* the "$name" placeholders of a where clause
Placeholders(where) ==
  {where.conds[i].value : i \in DOMAIN where.conds} \cap PlaceholderNames

\* the executor call in flight holds a where clause with a placeholder that
\* q_params (absent or given) does not define
Unresolved(req) ==
  /\ HasKey(req.query, "q/where")
  /\ Lookup(req.query, "q/where") # None
  /\ \E name \in Placeholders(Lookup(req.query, "q/where")[1]) :
       req.params = None \/ ~HasKey(req.params[1], name)

\* C1: the executor is never called with a where clause that holds a "$name"
\* placeholder q_params has no key for.
C1_NoUnresolvedPlaceholder == request # None => ~Unresolved(request[1])

QueryDocument == request[1].query

OptionalClauses ==
  { <<"q_where", "q/where">>, <<"q_order_by", "q/order-by">>,
    <<"q_offset", "q/offset">> }

\* C8: the document passed to the executor has the source, select and limit
\* keys, limit being 50 when q_limit is absent; it has the where, order-by and
\* offset keys only for the arguments that are present, and none of those
\* keys with a null value; it has no other key.
C8_WireDocumentKeys ==
  pc = "query" =>
    /\ {"q/from", "q/select", "q/limit"} \subseteq Keys(QueryDocument)
    /\ Keys(QueryDocument) \subseteq
         {"q/from", "q/select", "q/limit", "q/where", "q/order-by", "q/offset"}
    /\ Lookup(QueryDocument, "q/from") = Lookup(arguments, "q_from")
    /\ ~HasKey(arguments, "q_limit") =>
         Lookup(QueryDocument, "q/limit") = Some(DefaultQueryLimit)
    /\ HasKey(arguments, "q_limit") =>
         Lookup(QueryDocument, "q/limit") = Lookup(arguments, "q_limit")
    /\ \A c \in OptionalClauses :
         /\ HasKey(QueryDocument, c[2]) => HasKey(arguments, c[1])
         /\ HasKey(QueryDocument, c[2]) => Lookup(QueryDocument, c[2]) # None
    /\ HasKey(arguments, "q_where") /\ Lookup(arguments, "q_where") # None =>
         /\ HasKey(QueryDocument, "q/where")
         /\ Lookup(QueryDocument, "q/where") = Lookup(arguments, "q_where")
    /\ HasKey(arguments, "q_offset") /\ Lookup(arguments, "q_offset") # None =>
         /\ HasKey(QueryDocument, "q/offset")
         /\ Lookup(QueryDocument, "q/offset") = Lookup(arguments, "q_offset")
    /\ HasKey(arguments, "q_order_by") /\ Lookup(arguments, "q_order_by") # Some(<<>>) =>
         /\ HasKey(QueryDocument, "q/order-by")
         /\ Len(Lookup(QueryDocument, "q/order-by")[1]) =
              Len(Lookup(arguments, "q_order_by")[1])

\* a call in flight whose arguments leave out q_where, q_order_by, q_offset
\* and q_limit
C8_Witness ==
  /\ pc = "query"
  /\ Keys(arguments) = {"q_from", "q_select", "q_params"}
  /\ Keys(QueryDocument) = {"q/from", "q/select", "q/limit"}

QueryReturned == \E k \in DOMAIN calls : calls[k] = Event("query", "return", 0, "")

QueryFailed == \E k \in DOMAIN calls : calls[k] = Event("query", "fail", 0, "")

\* entity e has no handle at the alias: no such key, null, or the empty text
MissingHandle(e, alias) ==
  \/ ~HasKey(e, alias)
  \/ Lookup(e, alias) = None
  \/ Lookup(e, alias) = Some("")

\* the (entity, field) places of the returned entities with no handle.  A
\* resolved field holds a fetched text, which DocumentContents keeps non-empty,
\* so these are places of the page as the executor returned it.
MissingPlaces ==
  {p \in (DOMAIN result) \X (DOMAIN worklist) :
     MissingHandle(result[p[1]], worklist[p[2]].alias)}

\* C3: when the executor returned success and an entity has no handle at a
\* worklisted alias, the output is exactly one text item, a diagnostic that
\* names such an entity and the field; it holds no success payload and no
\* entity list.
C3_MissingHandleDiagnostic ==
  pc = "done" /\ QueryReturned /\ MissingPlaces # {} =>
    /\ Len(output) = 1
    /\ output[1].type = "text"
    /\ output[1].kind = "diagnostic"
    /\ ~output[1].success
    /\ output[1].result = <<>>
    /\ \E p \in MissingPlaces :
         /\ output[1].entity = Some(result[p[1]])
         /\ output[1].field = Some(worklist[p[2]])

\* the handle of the second entity is missing after a field of the first
\* entity was resolved
C3_Witness ==
  /\ pc = "done"
  /\ QueryReturned
  /\ pos[1] = 2
  /\ \E k \in DOMAIN calls : calls[k].op = "fetch" /\ calls[k].i = 1
  /\ MissingPlaces # {}
  /\ output[1].kind = "diagnostic"

\* the fetches issued so far, as <<entity index, alias>>
Fetches ==
  LET f == SelectSeq(calls, LAMBDA e : e.op = "fetch" /\ e.ph = "call")
  IN  [k \in DOMAIN f |-> <<f[k].i, f[k].alias>>]

\* every (entity, worklisted alias) pair, in entity order then worklist order
AllPairs ==
  [k \in 1..(Len(result) * Len(worklist)) |->
     << ((k - 1) \div Len(worklist)) + 1,
        worklist[((k - 1) % Len(worklist)) + 1].alias >>]

\* the pairs before entity i, field j
PairsBefore(i, j) == SubSeq(AllPairs, 1, (i - 1) * Len(worklist) + (j - 1))

\* C10: the remote calls of one invocation are made one at a time, each after
\* the one before has returned: the schema lookup first, then at most one
\* query execution, then content fetches.  A fetch is issued only after the
\* executor returned success; after an executor failure none is; after a
\* missing-handle abort the fetches are those of the pairs before the missing
\* one; with no handle missing there is exactly one fetch per (entity,
\* worklisted alias) pair, in entity order then worklist order.
C10_CallOrder ==
  /\ \A k \in DOMAIN calls :
       /\ (k % 2 = 1) = (calls[k].ph = "call")
       /\ k % 2 = 0 => calls[k].op = calls[k - 1].op
       /\ (calls[k].op = "get_schema") = (k \in {1, 2})
       /\ (calls[k].op = "query") = (k \in {3, 4})
       /\ calls[k].op = "fetch" => calls[4] = Event("query", "return", 0, "")
  /\ pc \in {"fetch", "done"} /\ QueryReturned =>
       \E n \in 0..Len(AllPairs) : Fetches = SubSeq(AllPairs, 1, n)
  /\ pc = "done" /\ QueryFailed => Fetches = <<>>
  /\ pc = "done" /\ QueryReturned /\ output[1].kind = "diagnostic" =>
       Fetches = PairsBefore(pos[1], pos[2])
  /\ pc = "done" /\ QueryReturned /\ MissingPlaces = {} =>
       /\ Fetches = AllPairs
       /\ output[1].kind = "result"

\* a call that ended in success after it fetched two fields of two entities
C10_Witness ==
  /\ pc = "done"
  /\ output[1].kind = "result"
  /\ Len(result) = 2
  /\ Len(worklist) = 2
  /\ Len(Fetches) = 4

(***************************************************************************)
(* parse_q_order_by and get_rich_text_fields on their own: arguments holds *)
(* the input, output the value returned.                                   *)
(***************************************************************************)
OrderKeys == {"a", "b", "c"}

\* the direction is any string: "up" is none the service knows
Directions == {"q/asc", "q/desc", "up"}

InitOrderBy ==
  /\ pc = "input"
  /\ arguments \in {None} \cup {Some(d) : d \in Dicts(OrderKeys, Directions, MaxOrder)}
  /\ request = None
  /\ worklist = <<>>
  /\ result = <<>>
  /\ pos = <<0, 0>>
  /\ calls = <<>>
  /\ output = <<>>

ParseOrderBy ==
  /\ pc = "input"
  /\ pc' = "applied"
  /\ output' = parse_q_order_by(arguments)
  /\ UNCHANGED <<arguments, request, worklist, result, pos, calls>>

SpecOrderBy == InitOrderBy /\ [][ParseOrderBy]_vars

\* C9: for a non-empty order mapping with entries k1, ..., kn in insertion
\* order, parse_q_order_by returns a list of n pairs, the i-th being
\* ([ki], direction of ki).
C9_OrderPreserved ==
  pc = "applied" /\ arguments # None /\ arguments[1] # <<>> =>
    /\ output # None
    /\ Len(output[1]) = Len(arguments[1])
    /\ \A i \in DOMAIN arguments[1] :
         /\ output[1][i][1] = <<arguments[1][i].k>>
         /\ output[1][i][2] = arguments[1][i].v

\* a mapping of two entries, "b" before "a", one with an unknown direction
C9_Witness ==
  /\ pc = "applied"
  /\ arguments = Some(<<[k |-> "b", v |-> "up"], [k |-> "a", v |-> "q/asc"]>>)
  /\ output = Some(<< <<<<"b">>, "up">>, <<<<"a">>, "q/asc">> >>)

SelectAliases == {"A", "B", "C"}

SelectSpecs ==
  { Str("S/desc"), Str("S/name"), Str("S/zzz"), Path(<<"S/desc", "x">>),
    Path(<<"S/name">>), Path(<<>>), SubQuery, Other }

Databases ==
  { [fields |-> {"S/name", "S/desc"}, rich |-> r] : r \in SUBSET {"S/name", "S/desc"} }

InitRichText ==
  /\ pc = "input"
  /\ arguments \in [q_select : Dicts(SelectAliases, SelectSpecs, MaxSelect),
                    database : Databases]
  /\ request = None
  /\ worklist = <<>>
  /\ result = <<>>
  /\ pos = <<0, 0>>
  /\ calls = <<>>
  /\ output = <<>>

GetRichTextFields ==
  /\ pc = "input"
  /\ pc' = "applied"
  /\ output' = get_rich_text_fields(arguments.q_select, arguments.database)
  /\ UNCHANGED <<arguments, request, worklist, result, pos, calls>>

SpecRichText == InitRichText /\ [][GetRichTextFields]_vars

\* the field a spec names: a string, or the first segment of a path
NamesRichText(spec, database) ==
  /\ spec.t = "str" \/ (spec.t = "list" /\ spec.s # <<>>)
  /\ spec.s[1] \in database.fields
  /\ spec.s[1] \in database.rich

\* what C4 says of a returned (worklist, select clause)
RichTextResult(q_select, database, rich, select) ==
  /\ Len(select) = Len(q_select)
  /\ \A i \in DOMAIN q_select :
       /\ select[i].k = q_select[i].k
       /\ IF NamesRichText(q_select[i].v, database)
            THEN /\ select[i].v = Path(<<q_select[i].v.s[1], SecretField>>)
                 /\ [alias |-> q_select[i].k, name |-> q_select[i].v.s[1]]
                      \in Range(rich)
            ELSE /\ select[i].v = q_select[i].v
                 /\ \A j \in DOMAIN rich : rich[j].alias # q_select[i].k
  /\ \A j \in DOMAIN rich : \E i \in DOMAIN q_select :
       /\ rich[j].alias = q_select[i].k
       /\ NamesRichText(q_select[i].v, database)

\* C4: for every select clause and database metadata, get_rich_text_fields
\* returns the select clause with the projection of each alias that names a
\* rich-text field replaced by [field name, document-handle field] and that
\* alias in the worklist, every other alias keeping its projection and
\* staying out of the worklist.
C4_RichTextSubstitution ==
  pc = "applied" =>
    /\ ~output.raised
    /\ RichTextResult(arguments.q_select, arguments.database,
                      output.rich, output.select)

\* What holds instead: the same, of the calls that return.
C4_WhenReturned ==
  pc = "applied" /\ ~output.raised =>
    RichTextResult(arguments.q_select, arguments.database,
                   output.rich, output.select)

\* The calls that do not return are those with an empty path in the clause.
C4_RaisedIffEmptyPath ==
  pc = "applied" =>
    (output.raised <=>
       \E i \in DOMAIN arguments.q_select : arguments.q_select[i].v = Path(<<>>))

(***************************************************************************)
(* search.py: handle_search                                                *)
(*                                                                         *)
(* The strings of this file are sequences of one-character strings.  The   *)
(* value of an entity's key is [t, s]: t = "str" with s the text,          *)
(* t = "int" (a number other than 0) or t = "none" (null), both with       *)
(* s = <<>>.                                                               *)
(***************************************************************************)
DefaultSearchLimit == 500

DefaultSearchOffset == 0

SearchPrefix == <<"_", "s", "e", "a", "r", "c", "h", "_">>

UpperCase ==
  << "A", "B", "C", "D", "E", "F", "G", "H", "I", "J", "K", "L", "M",
     "N", "O", "P", "Q", "R", "S", "T", "U", "V", "W", "X", "Y", "Z" >>

LowerCase ==
  << "a", "b", "c", "d", "e", "f", "g", "h", "i", "j", "k", "l", "m",
     "n", "o", "p", "q", "r", "s", "t", "u", "v", "w", "x", "y", "z" >>

LowerChar(c) ==
  IF \E i \in DOMAIN UpperCase : UpperCase[i] = c
    THEN LowerCase[CHOOSE i \in DOMAIN UpperCase : UpperCase[i] = c]
    ELSE c

\* s.lower()
Lower(s) == [i \in DOMAIN s |-> LowerChar(s[i])]

\* s.replace(old, new), old and new one character
Replace(s, old, new) == [i \in DOMAIN s |-> IF s[i] = old THEN new ELSE s[i]]

\* s.startswith(prefix)
StartsWith(s, prefix) ==
  Len(s) >= Len(prefix) /\ SubSeq(s, 1, Len(prefix)) = prefix

\* needle in hay
Contains(hay, needle) ==
  \E i \in 0..(Len(hay) - Len(needle)) : SubSeq(hay, i + 1, i + Len(needle)) = needle

\* "/".join(database.split("/")[:-1]): what is before the last "/"
SpaceOf(database) ==
  LET slashes == {i \in DOMAIN database : database[i] = "/"}
  IN  IF slashes = {} THEN <<>>
      ELSE SubSeq(database, 1,
                  (CHOOSE i \in slashes : \A j \in slashes : j <= i) - 1)

\* f"{space}/name"
NameFieldOf(database) == SpaceOf(database) \o <<"/", "n", "a", "m", "e">>

\* f"_search_{search_field.replace('/', '_').replace(' ', '_')}"
ProbeAlias(search_field) ==
  SearchPrefix \o Replace(Replace(search_field, "/", "_"), " ", "_")

\* lines 59-64
SearchFieldsOf(args) ==
  LET search_fields == Get(args, "search_fields", None)
  IN  IF search_fields = None \/ search_fields[1] = <<>>
        THEN <<NameFieldOf(Lookup(args, "database")[1])>>
        ELSE search_fields[1]

\* lines 67-74
ReturnFieldsOf(args) ==
  LET return_fields == Get(args, "return_fields", None)
  IN  IF return_fields = None \/ return_fields[1] = <<>>
        THEN << [k |-> <<"N", "a", "m", "e">>,
                 v |-> Str(NameFieldOf(Lookup(args, "database")[1]))],
                [k |-> <<"I", "d">>,
                 v |-> Str(<<"f", "i", "b", "e", "r", "y", "/", "i", "d">>)] >>
        ELSE return_fields[1]

\* lines 84-88: the probes of the first n search fields added to q_select
RECURSIVE AddProbes(_, _, _, _)
AddProbes(q_select, search_fields, return_fields, n) ==
  IF n = 0 THEN q_select
  ELSE LET before == AddProbes(q_select, search_fields, return_fields, n - 1)
           search_field == search_fields[n]
       IN  IF \E i \in DOMAIN return_fields : return_fields[i].v = Str(search_field)
             THEN before
             ELSE DictSet(before, ProbeAlias(search_field), Str(search_field))

\* lines 77-88
SearchSelect(search_fields, return_fields) ==
  AddProbes(return_fields, search_fields, return_fields, Len(search_fields))

\* lines 92-98
SearchDocument(database, q_select, limit, offset) ==
  << [k |-> "q/from", v |-> Some(database)],
     [k |-> "q/select", v |-> Some(q_select)],
     [k |-> "q/limit", v |-> Some(limit)],
     [k |-> "q/offset", v |-> Some(offset)],
     [k |-> "q/order", v |-> Some(<<"fibery/creation-date", "desc">>)] >>

NoValue == [t |-> "none", s |-> <<>>]

StrValue(s) == [t |-> "str", s |-> s]

IntValue == [t |-> "int", s |-> <<>>]

\* lines 113-137: the value of the search field in the entity
FieldValue(entity, search_field, q_select) ==
  LET field_alias == ProbeAlias(search_field)
      mapped == {i \in DOMAIN q_select : q_select[i].v = Str(search_field)}
      \* the first alias of q_select that maps to the field, if any
      found_alias == IF mapped = {} THEN None
                     ELSE Some(q_select[CHOOSE i \in mapped :
                                          \A j \in mapped : i <= j].k)
  IN  IF HasKey(entity, field_alias) THEN Lookup(entity, field_alias)
      ELSE IF found_alias # None /\ found_alias[1] # <<>>
                /\ HasKey(entity, found_alias[1])
        THEN Lookup(entity, found_alias[1])
      ELSE IF HasKey(entity, search_field) THEN Lookup(entity, search_field)
      ELSE NoValue

\* line 139: field_value and isinstance(field_value, str)
\*           and query in field_value.lower()
ValueMatchesCaseSensitive(field_value, query) ==
  /\ field_value.t = "int" \/ (field_value.t = "str" /\ field_value.s # <<>>)
  /\ field_value.t = "str"
  /\ Contains(field_value.s, query)

ValueMatches(field_value, query) ==
  /\ field_value.t = "int" \/ (field_value.t = "str" /\ field_value.s # <<>>)
  /\ field_value.t = "str"
  /\ Contains(Lower(field_value.s), query)

\* lines 111-141: match_found
MatchFound(entity, search_fields, q_select, query) ==
  \E n \in DOMAIN search_fields :
    ValueMatches(FieldValue(entity, search_fields[n], q_select), query)

\* line 145
StripNothing(entity) == entity

StripProbes(entity) == SelectSeq(entity, LAMBDA e : ~StartsWith(e.k, SearchPrefix))

\* lines 109-146
MatchingEntities(entities, search_fields, q_select, query) ==
  LET matching == SelectSeq(entities,
                    LAMBDA e : MatchFound(e, search_fields, q_select, query))
  IN  [n \in DOMAIN matching |-> StripProbes(matching[n])]

\* line 152
PageOfMatches(entities, matching_entities, limit) == Len(matching_entities) = limit

PageIsFull(entities, matching_entities, limit) == Len(entities) = limit

\* lines 149-155: the summary, the payload and the continuation instruction
\* (the offset to go on from, or None when there is no instruction)
SearchText(entities, matching_entities, limit, offset) ==
  [type |-> "text", kind |-> "search", scanned |-> Len(entities),
   offset |-> offset, limit |-> limit, found |-> Len(matching_entities),
   success |-> TRUE, result |-> matching_entities,
   continue |-> IF PageIsFull(entities, matching_entities, limit)
                  THEN Some(offset + limit) ELSE None]

\* f"Error querying database: {query_result.result}"
SearchErrorText ==
  [type |-> "text", kind |-> "error", scanned |-> 0, offset |-> 0, limit |-> 0,
   found |-> 0, success |-> FALSE, result |-> <<>>, continue |-> None]

sName == <<"N", "a", "m", "e">>

sId == <<"I", "d">>

sN == <<"N">>

\* "S/name", the name field of database "S/T", and "S d"
fName == <<"S", "/", "n", "a", "m", "e">>

fD == <<"S", " ", "d">>

SearchQueries == {<<>>, <<"A">>, <<"a", "b">>}

SearchArguments ==
  { <<[k |-> "database", v |-> Some(<<"S", "/", "T">>)], [k |-> "query", v |-> Some(q)]>>
      \o sf \o rf \o l \o off :
    q \in SearchQueries,
    sf \in MaybeArg("search_fields", {Some(<<>>), Some(<<fD>>), Some(<<fD, fName>>)}),
    rf \in MaybeArg("return_fields",
            {Some(<<[k |-> sN, v |-> Str(fD)]>>),
             Some(<<[k |-> SearchPrefix \o sN, v |-> Str(fName)]>>)}),
    l \in MaybeArg("limit", {Some(n) : n \in 0..MaxPage}),
    off \in MaybeArg("offset", {Some(3)}) }

\* lines 53-100, up to the call of the executor
SearchCall ==
  /\ pc = "idle"
  /\ \E args \in SearchArguments :
       /\ arguments' = args
       /\ request' = Some([query |-> SearchDocument(
                                       Lookup(args, "database")[1],
                                       SearchSelect(SearchFieldsOf(args), ReturnFieldsOf(args)),
                                       Get(args, "limit", Some(DefaultSearchLimit))[1],
                                       Get(args, "offset", Some(DefaultSearchOffset))[1]),
                           params |-> None])
  /\ calls' = Append(calls, Event("query", "call", 0, ""))
  /\ pc' = "query"
  /\ UNCHANGED <<worklist, result, pos, output>>

\* lines 102-103
SearchExecutorFail ==
  /\ pc = "query"
  /\ pc' = "done"
  /\ output' = <<SearchErrorText>>
  /\ calls' = Append(calls, Event("query", "fail", 0, ""))
  /\ request' = None
  /\ UNCHANGED <<arguments, worklist, result, pos>>

\* the entities the executor may return
SearchEntities ==
  LET ab == StrValue(<<"a", "B">>)
      b == StrValue(<<"b">>)
  IN  { <<>>,
        <<[k |-> sName, v |-> ab], [k |-> sId, v |-> IntValue]>>,
        <<[k |-> sName, v |-> StrValue(<<>>)], [k |-> sId, v |-> IntValue]>>,
        <<[k |-> sName, v |-> IntValue]>>,
        <<[k |-> sName, v |-> b], [k |-> ProbeAlias(fD), v |-> ab]>>,
        <<[k |-> sN, v |-> ab]>>,
        <<[k |-> fD, v |-> ab]>>,
        <<[k |-> ProbeAlias(fName), v |-> b], [k |-> sName, v |-> ab]>>,
        <<[k |-> sName, v |-> NoValue], [k |-> ProbeAlias(fD), v |-> StrValue(<<>>)]>> }

SearchPages == UNION {[1..n -> SearchEntities] : n \in 0..MaxPage}

\* lines 105-155
SearchExecutorSuccess ==
  /\ pc = "query"
  /\ \E entities \in SearchPages :
       LET search_fields == SearchFieldsOf(arguments)
           q_select == Lookup(request[1].query, "q/select")[1]
           limit == Get(arguments, "limit", Some(DefaultSearchLimit))[1]
           offset == Get(arguments, "offset", Some(DefaultSearchOffset))[1]
           query == Lower(Lookup(arguments, "query")[1])
       IN  /\ result' = entities
           /\ output' = <<SearchText(entities,
                            MatchingEntities(entities, search_fields, q_select, query),
                            limit, offset)>>
  /\ pc' = "done"
  /\ calls' = Append(calls, Event("query", "return", 0, ""))
  /\ request' = None
  /\ UNCHANGED <<arguments, worklist, pos>>

NextSearch ==
  \/ SearchCall
  \/ SearchExecutorFail
  \/ SearchExecutorSuccess

SpecSearch == InitIdle /\ [][NextSearch]_vars

(***************************************************************************)
(* Claims about handle_search                                              *)
(***************************************************************************)
GivenQuery == Lookup(arguments, "query")[1]

GivenLimit == Get(arguments, "limit", Some(DefaultSearchLimit))[1]

GivenOffset == Get(arguments, "offset", Some(DefaultSearchOffset))[1]

Succeeded == pc = "done" /\ output[1].kind = "search"

\* the value the search field has in the entity: that of its probe alias,
\* else that of the first alias of the working select clause whose field spec
\* is the field, else that of the key that is the field itself
LocatedValue(e, f) ==
  LET select == SearchSelect(SearchFieldsOf(arguments), ReturnFieldsOf(arguments))
      aliases == {i \in DOMAIN select : select[i].v = Str(f)}
      first == CHOOSE i \in aliases : \A j \in aliases : i <= j
  IN  IF HasKey(e, ProbeAlias(f)) THEN Lookup(e, ProbeAlias(f))
      ELSE IF aliases # {} /\ select[first].k # <<>> /\ HasKey(e, select[first].k)
        THEN Lookup(e, select[first].k)
      ELSE IF HasKey(e, f) THEN Lookup(e, f)
      ELSE NoValue

\* the value is a string that contains the lower-cased query text, compared
\* without regard to case
ContainsQuery(v) == v.t = "str" /\ Contains(Lower(v.s), Lower(GivenQuery))

SomeFieldContainsQuery(e) ==
  \E f \in Range(SearchFieldsOf(arguments)) : ContainsQuery(LocatedValue(e, f))

SomeFieldContainsQueryNonEmpty(e) ==
  \E f \in Range(SearchFieldsOf(arguments)) :
    LocatedValue(e, f).s # <<>> /\ ContainsQuery(LocatedValue(e, f))

\* the entities of the page at the given places, in the order of the page,
\* without their probe keys
Picked(places) ==
  LET order == SelectSeq([i \in DOMAIN result |-> i], LAMBDA i : i \in places)
  IN  [n \in DOMAIN order |->
         SelectSeq(result[order[n]], LAMBDA kv : ~StartsWith(kv.k, SearchPrefix))]

\* C2 as stated: the filtered result holds exactly the returned entities one
\* of whose search fields has a string value that contains the query text,
\* whatever the query text, the empty one included.
C2_MatchIffContains ==
  Succeeded =>
    output[1].result =
      Picked({i \in DOMAIN result : SomeFieldContainsQuery(result[i])})

\* C2 as amended: the filtered result holds exactly the returned entities one
\* of whose search fields has a non-empty string value that contains the
\* query text; non-string values and the empty string never match.
C2_MatchIffNonEmptyContains ==
  Succeeded =>
    output[1].result =
      Picked({i \in DOMAIN result : SomeFieldContainsQueryNonEmpty(result[i])})

\* query "A" finds "aB" in the first entity of a page and nothing in the
\* number of the second
C2_Witness ==
  /\ Succeeded
  /\ GivenQuery = <<"A">>
  /\ Len(result) = 2
  /\ SomeFieldContainsQueryNonEmpty(result[1])
  /\ ~SomeFieldContainsQueryNonEmpty(result[2])
  /\ HasKey(result[2], sName)
  /\ Lookup(result[2], sName) = IntValue
  /\ Len(output[1].result) = 1

\* C5: a successful search says to continue at offset + limit when the
\* executor returned exactly limit entities, and gives no continuation
\* instruction when it returned fewer, whatever the number of matches.
C5_Continuation ==
  Succeeded =>
    /\ Len(result) = GivenLimit => output[1].continue = Some(GivenOffset + GivenLimit)
    /\ Len(result) < GivenLimit => output[1].continue = None
    /\ output[1].scanned = Len(result)

\* a full page of two entities, one of them a match, scanned from offset 3
C5_Witness ==
  /\ Succeeded
  /\ HasKey(arguments, "limit") /\ GivenLimit = 2
  /\ HasKey(arguments, "offset") /\ GivenOffset = 3
  /\ Len(result) = 2
  /\ output[1].found = 1
  /\ output[1].continue = Some(5)

\* C6: no entity of any output has a key that starts with "_search_".
C6_NoProbeAliasReturned ==
  pc = "done" =>
    \A n \in DOMAIN output[1].result :
      \A key \in Keys(output[1].result[n]) : ~StartsWith(key, SearchPrefix)

\* a returned entity matched by the value at its probe alias
C6_Witness ==
  /\ Succeeded
  /\ Len(result) = 1
  /\ HasKey(result[1], ProbeAlias(fD))
  /\ ValueMatches(Lookup(result[1], ProbeAlias(fD)), Lower(GivenQuery))
  /\ Len(output[1].result) = 1

\* C7: the document handle_search sends asks for descending creation time
\* under the order-by key, in the list-of-pairs form parse_q_order_by gives.
C7_SearchOrderByClause ==
  pc = "query" =>
    /\ HasKey(request[1].query, "q/order-by")
    /\ \E direction \in {"q/desc", "desc"} :
         Lookup(request[1].query, "q/order-by") =
           parse_q_order_by(Some(<<[k |-> "fibery/creation-date", v |-> direction]>>))

====
